---- MODULE Spec2Model ----
(***************************************************************************)
(* rsterm: the terminal session, the event loop of the editor and the      *)
(* cursor movement function, modelled from src/src/main.rs,                *)
(* src/src/editor.rs and src/src/editor/terminal.rs.                       *)
(*                                                                         *)
(* Spec      the whole process: main -> Editor::new -> Editor::run ->      *)
(*           Editor::repl -> teardown (panic hook, Drop for Terminal).     *)
(* SpecCalc  a harness for the pure function Editor::calculate_movement:   *)
(*           its Init draws the coordinate and the size, its one action    *)
(*           applies the function with a key.                              *)
(***************************************************************************)
EXTENDS Integers, Naturals, Sequences, FiniteSets, TLC

VARIABLES
    pc,           \* position of the process
    should_quit,  \* Editor.should_quit
    location,     \* Editor.location : [x, y]
    view_size,    \* Editor.view's stored size : [height, width]
    termSize,     \* what crossterm::terminal::size() reports now (environment)
    event,        \* the event of the current loop iteration (NoEvent outside)
    result,       \* what repl returned: "none" | "ok" | "err"
    panicked,     \* a panic was raised
    dev,          \* the terminal device: [raw, alt, caret]
    queued,       \* instructions queued on stdout and not yet flushed
    pass,         \* instructions the latest refresh pass queued or flushed
    restore,      \* restoration calls made by the panic hook and by Drop
    stats,        \* counters of the run: [goodbyes, quitPasses, quitReads]
    calc          \* harness record of the latest calculate_movement call

vars == << pc, should_quit, location, view_size, termSize, event,
           result, panicked, dev, queued, pass, restore, stats, calc >>

----------------------------------------------------------------------------
(* Bounds of the model *)

\* largest terminal width and largest terminal height the environment
\* reports in Spec
MaxWidth == 2
MaxHeight == 1
\* largest terminal width and height in SpecCalc
CalcMaxDim == 3
\* largest small coordinate SpecCalc starts from (it lies outside every
\* small size but the largest)
CalcMaxCoord == 3
\* longest run of calls with one key SpecCalc makes
MaxRun == 3
\* width of usize in the model; the target has 64 bits, the model keeps a
\* width that still holds every u16 value and that TLC's integers can hold
UsizeBits == 20

\* u16::MAX
U16Max == 65535

UsizeMax == 2^UsizeBits - 1

----------------------------------------------------------------------------
(* Integer helpers of core *)

\* usize::saturating_sub
saturating_sub(a, b) == IF a >= b THEN a - b ELSE 0

\* usize::saturating_add
saturating_add(a, b) == IF a + b > UsizeMax THEN UsizeMax ELSE a + b

\* core::cmp::min
min(a, b) == IF a <= b THEN a ELSE b

\* `v as usize` of a u16 value: a widening conversion
u16_as_usize(v) == v % (U16Max + 1)

\* `v as u16` of a usize value: truncation to the low 16 bits
usize_as_u16(v) == v % (U16Max + 1)

----------------------------------------------------------------------------
(* Types *)

\* struct Location
Location(x, y) == [x |-> x, y |-> y]

\* struct Size
Size(height, width) == [height |-> height, width |-> width]

MoveKeys == {"Up", "Down", "Left", "Right", "PageUp", "PageDown", "Home", "End"}

\* KeyCode: the eight movement keys, Char('q') and one other key
KeyCodes == MoveKeys \cup {"Char_q", "Char_a"}

\* KeyEventKind
KeyKinds == {"Press", "Repeat", "Release"}

\* KeyModifiers (a bit set)
Modifiers == { {}, {"CONTROL"}, {"CONTROL", "SHIFT"} }

CONTROL == {"CONTROL"}

Widths == 0 .. MaxWidth
Heights == 0 .. MaxHeight

TermSizes == { Size(h, w) : h \in Heights, w \in Widths }

NoEvent == [type |-> "None", code |-> "None", kind |-> "None", mods |-> {},
            width |-> 0, height |-> 0]

KeyEvent(code, kind, mods) ==
    [type |-> "Key", code |-> code, kind |-> kind, mods |-> mods,
     width |-> 0, height |-> 0]

ResizeEvent(w, h) ==
    [type |-> "Resize", code |-> "None", kind |-> "None", mods |-> {},
     width |-> w, height |-> h]

\* Event::FocusGained, FocusLost, Mouse, Paste
OtherEvent ==
    [type |-> "Other", code |-> "None", kind |-> "None", mods |-> {},
     width |-> 0, height |-> 0]

\* crossterm::event::Event
Events ==
    { KeyEvent(c, k, m) : c \in KeyCodes, k \in KeyKinds, m \in Modifiers }
    \cup { ResizeEvent(w, h) : w \in Widths, h \in Heights }
    \cup { OtherEvent }

----------------------------------------------------------------------------
(* Editor::calculate_movement *)

\* usize::wrapping_sub, which the code does not use: what `a - b` gives in a
\* build without overflow checks
wrapping_sub(a, b) == IF a >= b THEN a - b ELSE UsizeMax + 1 - (b - a)

\* KeyCode::Up with a wrapping subtraction
arm_Up_wrapping(y) == wrapping_sub(y, 1)

\* KeyCode::Up => y = y.saturating_sub(1)
arm_Up(y) == saturating_sub(y, 1)

\* KeyCode::Down without the clamp to the last row
arm_Down_unclamped(y, height) == saturating_add(y, 1)

\* KeyCode::Down clamped to height instead of height - 1
arm_Down_off_by_one(y, height) == min(height, saturating_add(y, 1))

\* KeyCode::Down => y = min(height.saturating_sub(1), y.saturating_add(1))
arm_Down(y, height) == min(saturating_sub(height, 1), saturating_add(y, 1))

\* KeyCode::Left => x = x.saturating_sub(1)
arm_Left(x) == saturating_sub(x, 1)

\* KeyCode::Right without the clamp to the last column
arm_Right_unclamped(x, width) == saturating_add(x, 1)

\* KeyCode::Right => x = min(width.saturating_sub(1), x.saturating_add(1))
arm_Right(x, width) == min(saturating_sub(width, 1), saturating_add(x, 1))

\* KeyCode::PageDown => y = height.saturating_sub(1)
arm_PageDown(height) == saturating_sub(height, 1)

\* KeyCode::End jumping to the column after the last one
arm_End_at_width(width) == width

\* KeyCode::End => x = width.saturating_sub(1)
arm_End(width) == saturating_sub(width, 1)

\* the default arm taken for Home
arm_default_as_Home(loc) == Location(0, loc.y)

\* _ => ()
arm_default(loc) == Location(loc.x, loc.y)

calculate_movement(loc, key_code, size) ==
    LET x == loc.x
        y == loc.y
        height == size.height
        width == size.width
    IN  CASE key_code = "Up" -> Location(x, arm_Up(y))
          [] key_code = "Down" -> Location(x, arm_Down(y, height))
          [] key_code = "Left" -> Location(arm_Left(x), y)
          [] key_code = "Right" -> Location(arm_Right(x, width), y)
          [] key_code = "PageUp" -> Location(x, 0)
          [] key_code = "PageDown" -> Location(x, arm_PageDown(height))
          [] key_code = "Home" -> Location(0, y)
          [] key_code = "End" -> Location(arm_End(width), y)
          [] OTHER -> arm_default(loc)

----------------------------------------------------------------------------
(* The terminal device and the instructions queued on stdout *)

Instr(op, col, row, text) == [op |-> op, col |-> col, row |-> row, text |-> text]

\* crossterm::cursor::Hide
Hide == Instr("Hide", 0, 0, "")
\* crossterm::cursor::Show
Show == Instr("Show", 0, 0, "")
\* crossterm::terminal::Clear(ClearType::All)
ClearAll == Instr("Clear", 0, 0, "")
\* crossterm::terminal::EnterAlternateScreen
EnterAlternateScreen == Instr("EnterAlternateScreen", 0, 0, "")
\* crossterm::terminal::LeaveAlternateScreen
LeaveAlternateScreen == Instr("LeaveAlternateScreen", 0, 0, "")
\* Terminal::print: queues crossterm::style::Print(string)
print(string) == Instr("Print", 0, 0, string)
\* the marker a refresh pass records for its Terminal::execute
Flushed == Instr("Flush", 0, 0, "")

\* Terminal::move_caret_to: MoveTo(position.col as u16, position.row as u16)
move_caret_to(col, row) ==
    Instr("MoveTo", usize_as_u16(col), usize_as_u16(row), "")

\* View::render, as one instruction drawing the rows of the stored size
render(size) == Instr("Render", size.width, size.height, "")

Farewell == "Goodbye.\r\n"

\* the effect of one flushed instruction on the device
ApplyInstr(d, i) ==
    CASE i.op = "EnterAlternateScreen" -> [d EXCEPT !.alt = TRUE]
      [] i.op = "LeaveAlternateScreen" -> [d EXCEPT !.alt = FALSE]
      [] i.op = "Hide" -> [d EXCEPT !.caret = FALSE]
      [] i.op = "Show" -> [d EXCEPT !.caret = TRUE]
      [] OTHER -> d

RECURSIVE ApplyAll(_, _)
\* Terminal::execute (stdout().flush()) when it succeeds: the queued
\* instructions reach the device in order
ApplyAll(d, q) ==
    IF q = << >> THEN d ELSE ApplyAll(ApplyInstr(d, Head(q)), Tail(q))

\* disable_raw_mode when it succeeds (ok) and when it fails
disable_raw_mode(d, ok) == IF ok THEN [d EXCEPT !.raw = FALSE] ELSE d

\* the counters of restoration calls (of main's Err arm, the panic hook and
\* Drop for Terminal), whether one of them failed, and the calls made by Drop
\* for Terminal, in order
NoRestore == [leave |-> 0, show |-> 0, flush |-> 0, disable |-> 0,
              failed |-> FALSE, dropped |-> << >>]

NoStats == [goodbyes |-> 0, quitPasses |-> 0, quitReads |-> 0]

\* a counter of the run, counted up to StatCap
StatCap == 2
Inc(c) == IF c < StatCap THEN c + 1 ELSE c

NoCalc == [key |-> "None", from |-> Location(0, 0), size |-> Size(0, 0),
           to |-> Location(0, 0), runFrom |-> Location(0, 0), runLen |-> 0]

----------------------------------------------------------------------------
(* main and Editor::new *)

Init ==
    /\ pc = "main"
    /\ should_quit = FALSE
    /\ location = Location(0, 0)
    /\ view_size = Size(0, 0)
    /\ termSize \in TermSizes
    /\ event = NoEvent
    /\ result = "none"
    /\ panicked = FALSE
    /\ dev = [raw |-> FALSE, alt |-> FALSE, caret |-> TRUE]
    /\ queued = << >>
    /\ pass = << >>
    /\ restore = NoRestore
    /\ stats = NoStats
    /\ calc = NoCalc

\* Terminal::size: the reported u16 pair widened to usize
Terminal_size == Size(u16_as_usize(termSize.height), u16_as_usize(termSize.width))

\* Terminal::new with its step f failing (0: none; 1: enable_raw_mode,
\* 2: enter_alternate_screen, 3: clear_screen, 4: execute)
Terminal_new(f) ==
    LET q == IF f = 3 THEN << EnterAlternateScreen >>
             ELSE IF f \in {0, 4} THEN << EnterAlternateScreen, ClearAll >>
             ELSE << >>
        d == IF f = 1 THEN dev ELSE [dev EXCEPT !.raw = TRUE]
    IN  /\ dev' = IF f = 0 THEN ApplyAll(d, queued \o q) ELSE d
        /\ queued' = IF f = 0 THEN << >> ELSE queued \o q

\* View::default: the stored size is the size query's answer, or the
\* default size when the query fails
View_default(size_ok) ==
    view_size' = IF size_ok THEN Terminal_size ELSE Size(0, 0)

\* main, lines 9-21: the hook is installed and Editor::new is called
Editor_new(f, size_ok) ==
    /\ pc = "main"
    /\ Terminal_new(f)
    /\ IF f = 0
       THEN /\ should_quit' = FALSE
            /\ location' = Location(0, 0)
            /\ View_default(size_ok)
            /\ pc' = "refresh"
       ELSE /\ pc' = "init_err"
            /\ UNCHANGED << should_quit, location, view_size >>
    /\ UNCHANGED << termSize, event, result, panicked, pass, restore,
                    stats, calc >>

\* main, the Err arm: disable_raw_mode (ok or not), eprintln, return
main_init_err(ok) ==
    /\ pc = "init_err"
    /\ dev' = disable_raw_mode(dev, ok)
    /\ restore' = [restore EXCEPT !.disable = @ + 1, !.failed = @ \/ ~ok]
    /\ pc' = "exited"
    /\ UNCHANGED << should_quit, location, view_size, termSize, event,
                    result, panicked, queued, pass, stats, calc >>

----------------------------------------------------------------------------
(* Editor::repl and what it calls *)

\* Editor::refresh_screen showing the caret before it is moved to the cursor
\* coordinate
PassOps_show_early(quit, loc, size) ==
    IF quit
    THEN << Hide, move_caret_to(0, 0), ClearAll, print(Farewell), Show, Flushed >>
    ELSE << Hide, move_caret_to(0, 0), render(size), Show,
            move_caret_to(loc.x, loc.y), Flushed >>

\* Editor::refresh_screen without its show_caret: the caret stays hidden
PassOps_caret_left_hidden(quit, loc, size) ==
    IF quit
    THEN << Hide, move_caret_to(0, 0), ClearAll, print(Farewell), Hide, Flushed >>
    ELSE << Hide, move_caret_to(0, 0), render(size),
            move_caret_to(loc.x, loc.y), Hide, Flushed >>

\* the six device steps of Editor::refresh_screen, in the order of the code
PassOps(quit, loc, size) ==
    IF quit
    THEN << Hide, move_caret_to(0, 0), ClearAll, print(Farewell), Show, Flushed >>
    ELSE << Hide, move_caret_to(0, 0), render(size),
            move_caret_to(loc.x, loc.y), Show, Flushed >>

PassLen == 6

\* the debug assertions of Terminal::move_caret_to on the cursor coordinate;
\* debug says whether the build compiles debug_assert! in
caret_assert_fails(debug) ==
    /\ debug
    /\ ~should_quit
    /\ (location.x > U16Max \/ location.y > U16Max)

\* Editor::refresh_screen with its step f failing (0: none). The steps before
\* f are queued; the last step, Terminal::execute, sends the queue to the
\* device.
refresh_screen(f, debug) ==
    LET ops == PassOps(should_quit, location, view_size)
        asserted == caret_assert_fails(debug) /\ (f = 0 \/ f > 3)
        done == IF asserted THEN SubSeq(ops, 1, 3)
                ELSE IF f = 0 THEN ops ELSE SubSeq(ops, 1, f - 1)
        sent == (~asserted) /\ f = 0
    IN  /\ pass' = done
        /\ dev' = IF sent THEN ApplyAll(dev, queued \o SubSeq(ops, 1, PassLen - 1))
                  ELSE dev
        /\ queued' = IF sent THEN << >> ELSE queued \o done
        /\ stats' = [stats EXCEPT
                       !.quitPasses = IF should_quit THEN Inc(@) ELSE @,
                       !.goodbyes = IF should_quit /\ Len(done) >= 4
                                    THEN Inc(@) ELSE @]
        /\ panicked' = asserted
        /\ result' = IF sent \/ asserted THEN result ELSE "err"
        /\ pc' = IF asserted THEN "hook" ELSE IF sent THEN "check" ELSE "run"

\* Editor::repl, line 50: self.refresh_screen()?
RefreshScreen(f, debug) ==
    /\ pc = "refresh"
    /\ refresh_screen(f, debug)
    /\ event' = NoEvent
    /\ UNCHANGED << should_quit, location, view_size, termSize,
                    restore, calc >>

\* Editor::repl without the break: the loop goes on to read
ReplCheck_no_break ==
    /\ pc = "check"
    /\ pc' = "read"
    /\ UNCHANGED << should_quit, location, view_size, termSize, event, result,
                    panicked, dev, queued, pass, restore, stats, calc >>

\* Editor::repl breaking after every refresh pass, should_quit or not
ReplCheck_break_always ==
    /\ pc = "check"
    /\ pc' = "run"
    /\ result' = "ok"
    /\ UNCHANGED << should_quit, location, view_size, termSize, event,
                    panicked, dev, queued, pass, restore, stats, calc >>

\* Editor::repl, lines 51-53 and 57: break and return Ok when should_quit
ReplCheck ==
    /\ pc = "check"
    /\ IF should_quit
       THEN pc' = "run" /\ result' = "ok"
       ELSE pc' = "read" /\ UNCHANGED result
    /\ UNCHANGED << should_quit, location, view_size, termSize, event,
                    panicked, dev, queued, pass, restore, stats, calc >>

\* View::resize: the stored size is replaced
View_resize(size) == view_size' = size

\* Editor::move_point falling back to the default size (0 x 0) when
\* Terminal::size fails, instead of returning
move_point_default_size(key_code, size_ok) ==
    location' = calculate_movement(location, key_code,
                                   IF size_ok THEN Terminal_size ELSE Size(0, 0))

\* Editor::move_point: the movement is skipped when Terminal::size fails
move_point(key_code, size_ok) ==
    location' = IF size_ok
                THEN calculate_movement(location, key_code, Terminal_size)
                ELSE location

\* kind: KeyEventKind::Press, taken for a repeat as well
is_press_or_repeat(kind) == kind \in {"Press", "Repeat"}

\* kind: KeyEventKind::Press in the pattern of evaluate_event
is_press(kind) == kind = "Press"

\* the quit pattern matching any modifiers that contain CONTROL
is_quit_key_any_control(code, mods) == code = "Char_q" /\ "CONTROL" \in mods

\* (KeyCode::Char('q'), KeyModifiers::CONTROL): the modifiers are CONTROL alone
is_quit_key(code, mods) == code = "Char_q" /\ mods = CONTROL

\* the Resize arm taking the event's pair as (height, width)
resize_size_swapped(width_u16, height_u16) ==
    Size(u16_as_usize(width_u16), u16_as_usize(height_u16))

\* Editor::evaluate_event, the Event::Resize(width_u16, height_u16) arm: the
\* Size { height, width } handed to View::resize
resize_size(width_u16, height_u16) ==
    Size(u16_as_usize(height_u16), u16_as_usize(width_u16))

\* Editor::evaluate_event
evaluate_event(e, size_ok) ==
    CASE e.type = "Key" /\ is_press(e.kind) ->
           CASE is_quit_key(e.code, e.mods) ->
                  /\ should_quit' = TRUE
                  /\ UNCHANGED << location, view_size >>
             [] e.code \in MoveKeys ->
                  /\ move_point(e.code, size_ok)
                  /\ UNCHANGED << should_quit, view_size >>
             [] OTHER -> UNCHANGED << should_quit, location, view_size >>
      [] e.type = "Resize" ->
           /\ View_resize(resize_size(e.width, e.height))
           /\ UNCHANGED << should_quit, location >>
      [] OTHER -> UNCHANGED << should_quit, location, view_size >>

\* Editor::repl, lines 54-55: read() returns the event e, which is dispatched
ReadEvaluate(e, size_ok) ==
    /\ pc = "read"
    /\ event' = e
    /\ evaluate_event(e, size_ok)
    /\ stats' = [stats EXCEPT !.quitReads = IF should_quit THEN Inc(@) ELSE @]
    /\ pc' = "refresh"
    /\ UNCHANGED << termSize, result, panicked, dev, queued, pass,
                    restore, calc >>

\* Editor::repl, line 54: read() fails and the error is returned
ReadFail ==
    /\ pc = "read"
    /\ result' = "err"
    /\ pc' = "run"
    /\ stats' = [stats EXCEPT !.quitReads = IF should_quit THEN Inc(@) ELSE @]
    /\ UNCHANGED << should_quit, location, view_size, termSize, event,
                    panicked, dev, queued, pass, restore, calc >>

\* the environment: the terminal is resized while the loop waits for input
TermResize(size) ==
    /\ pc = "read"
    /\ size # termSize
    /\ termSize' = size
    /\ UNCHANGED << pc, should_quit, location, view_size, event, result,
                    panicked, dev, queued, pass, restore, stats, calc >>

----------------------------------------------------------------------------
(* Editor::run and the teardown *)

\* Editor::run ending the process at once when repl returned an error, the
\* editor not dropped
Run_exit_on_error(debug) ==
    /\ pc = "run"
    /\ pc' = IF result = "err" THEN "exited" ELSE "drop"
    /\ UNCHANGED << should_quit, location, view_size, termSize, event, result,
                    panicked, dev, queued, pass, restore, stats, calc >>

\* Editor::run, lines 40-45: debug_assert!(false) panics in a debug build
\* (debug) when repl returned an error; otherwise run returns and the editor
\* is dropped. The build profile is read here and in move_caret_to only, at
\* most once in a run.
Run(debug) ==
    /\ pc = "run"
    /\ panicked' = (result = "err" /\ debug)
    /\ pc' = IF panicked' THEN "hook" ELSE "drop"
    /\ UNCHANGED << should_quit, location, view_size, termSize, event,
                    result, dev, queued, pass, restore, stats, calc >>

\* the panic hook of main, lines 10-18, with step h of
\* execute!(stdout(), LeaveAlternateScreen, Show) failing (0: none, 1: writing
\* LeaveAlternateScreen, 2: writing Show, 3: the flush) and disable_raw_mode
\* succeeding (raw_ok) or not. The panic then unwinds and drops the editor.
panic_hook(h, raw_ok) ==
    LET q == IF h = 1 THEN << >>
             ELSE IF h = 2 THEN << LeaveAlternateScreen >>
             ELSE << LeaveAlternateScreen, Show >>
        d == IF h = 0 THEN ApplyAll(dev, queued \o q) ELSE dev
    IN  /\ dev' = disable_raw_mode(d, raw_ok)
        /\ queued' = IF h = 0 THEN << >> ELSE queued \o q
        /\ restore' = [restore EXCEPT
                         !.leave = @ + 1,
                         !.show = IF h = 1 THEN @ ELSE @ + 1,
                         !.flush = IF h \in {1, 2} THEN @ ELSE @ + 1,
                         !.disable = @ + 1,
                         !.failed = @ \/ h # 0 \/ ~raw_ok]

PanicHook(h, raw_ok) ==
    /\ pc = "hook"
    /\ panic_hook(h, raw_ok)
    /\ pc' = "drop"
    /\ UNCHANGED << should_quit, location, view_size, termSize, event,
                    result, panicked, pass, stats, calc >>

\* Drop for Terminal without its show_caret step
Terminal_drop_without_show(leave_ok, show_ok, flush_ok, raw_ok) ==
    LET q == queued \o (IF leave_ok THEN << LeaveAlternateScreen >> ELSE << >>)
        d == IF flush_ok THEN ApplyAll(dev, q) ELSE dev
    IN  /\ dev' = disable_raw_mode(d, raw_ok)
        /\ queued' = IF flush_ok THEN << >> ELSE q
        /\ restore' = [restore EXCEPT
                         !.leave = @ + 1,
                         !.flush = @ + 1,
                         !.disable = @ + 1,
                         !.failed = @ \/ ~(leave_ok /\ flush_ok /\ raw_ok),
                         !.dropped = << "leave_alternate_screen", "execute",
                                        "disable_raw_mode" >>]

\* Drop for Terminal with each step propagating its error as `?` does: the
\* steps after the first failing one are not attempted
Terminal_drop_stops_at_failure(leave_ok, show_ok, flush_ok, raw_ok) ==
    LET n == IF ~leave_ok THEN 1 ELSE IF ~show_ok THEN 2
             ELSE IF ~flush_ok THEN 3 ELSE 4
        q == queued \o (IF leave_ok THEN << LeaveAlternateScreen >> ELSE << >>)
                    \o (IF leave_ok /\ show_ok THEN << Show >> ELSE << >>)
        sent == leave_ok /\ show_ok /\ flush_ok
        d == IF sent THEN ApplyAll(dev, q) ELSE dev
    IN  /\ dev' = IF n = 4 THEN disable_raw_mode(d, raw_ok) ELSE d
        /\ queued' = IF sent THEN << >> ELSE q
        /\ restore' = [restore EXCEPT
                         !.leave = @ + 1,
                         !.show = IF n >= 2 THEN @ + 1 ELSE @,
                         !.flush = IF n >= 3 THEN @ + 1 ELSE @,
                         !.disable = IF n >= 4 THEN @ + 1 ELSE @,
                         !.failed = @ \/ ~(leave_ok /\ show_ok /\ flush_ok /\ raw_ok),
                         !.dropped = SubSeq(<< "leave_alternate_screen", "show_caret",
                                               "execute", "disable_raw_mode" >>, 1, n)]

\* Drop for Terminal: the four steps, each attempted whatever the others did;
\* leave_ok, show_ok, flush_ok, raw_ok say which of them succeed
Terminal_drop(leave_ok, show_ok, flush_ok, raw_ok) ==
    LET q == queued \o (IF leave_ok THEN << LeaveAlternateScreen >> ELSE << >>)
                    \o (IF show_ok THEN << Show >> ELSE << >>)
        d == IF flush_ok THEN ApplyAll(dev, q) ELSE dev
    IN  /\ dev' = disable_raw_mode(d, raw_ok)
        /\ queued' = IF flush_ok THEN << >> ELSE q
        /\ restore' = [restore EXCEPT
                         !.leave = @ + 1,
                         !.show = @ + 1,
                         !.flush = @ + 1,
                         !.disable = @ + 1,
                         !.failed = @ \/ ~(leave_ok /\ show_ok /\ flush_ok /\ raw_ok),
                         !.dropped = << "leave_alternate_screen", "show_caret",
                                        "execute", "disable_raw_mode" >>]

\* the editor, and with it its Terminal, goes out of scope in main; the
\* cursor coordinate and the view of the dropped editor are gone and read as
\* their defaults from then on
Drop(leave_ok, show_ok, flush_ok, raw_ok) ==
    /\ pc = "drop"
    /\ Terminal_drop(leave_ok, show_ok, flush_ok, raw_ok)
    /\ pc' = "exited"
    /\ location' = Location(0, 0)
    /\ view_size' = Size(0, 0)
    /\ UNCHANGED << should_quit, termSize, event, result, panicked, pass,
                    stats, calc >>

\* main has returned: the runtime's cleanup of std::io::stdout writes what
\* the stream still buffers, the instructions queued and never flushed. The
\* step is the cleanup that succeeds; one that fails changes nothing.
StdoutCleanup ==
    /\ pc = "exited"
    /\ queued # << >>
    /\ dev' = ApplyAll(dev, queued)
    /\ queued' = << >>
    /\ UNCHANGED << pc, should_quit, location, view_size, termSize, event,
                    result, panicked, pass, restore, stats, calc >>

Next ==
    \/ \E f \in 0 .. 4, size_ok \in BOOLEAN : Editor_new(f, size_ok)
    \/ \E ok \in BOOLEAN : main_init_err(ok)
    \/ \E f \in 0 .. PassLen, debug \in BOOLEAN : RefreshScreen(f, debug)
    \/ ReplCheck
    \/ \E e \in Events, size_ok \in BOOLEAN : ReadEvaluate(e, size_ok)
    \/ ReadFail
    \/ \E size \in TermSizes : TermResize(size)
    \/ \E debug \in BOOLEAN : Run(debug)
    \/ \E h \in 0 .. 3, raw_ok \in BOOLEAN : PanicHook(h, raw_ok)
    \/ \E l \in BOOLEAN, s \in BOOLEAN, f \in BOOLEAN, r \in BOOLEAN :
          Drop(l, s, f, r)
    \/ StdoutCleanup

Spec == Init /\ [][Next]_vars

----------------------------------------------------------------------------
(* SpecCalc: Editor::calculate_movement on drawn inputs *)

\* coordinates: the small ones, the two largest that fit u16, and the largest
\* usize value
CalcCoords == (0 .. CalcMaxCoord) \cup {U16Max - 1, U16Max, UsizeMax}

\* widths and heights: the small ones, and the largest u16 value
CalcDims == (0 .. CalcMaxDim) \cup {U16Max}

InitCalc ==
    /\ pc = "calc"
    /\ should_quit = FALSE
    /\ location \in { Location(x, y) : x \in CalcCoords, y \in CalcCoords }
    /\ view_size = Size(0, 0)
    /\ termSize \in { Size(h, w) : h \in CalcDims, w \in CalcDims }
    /\ event = NoEvent
    /\ result = "none"
    /\ panicked = FALSE
    /\ dev = [raw |-> FALSE, alt |-> FALSE, caret |-> TRUE]
    /\ queued = << >>
    /\ pass = << >>
    /\ restore = NoRestore
    /\ stats = NoStats
    /\ calc = NoCalc

\* one call location = calculate_movement(location, key_code, size); calc
\* records the call, and the run of calls with the same key it belongs to.
\* A behaviour is one run of at most MaxRun calls with one key.
CalcApply(key_code) ==
    /\ pc = "calc"
    /\ calc.key \in {"None", key_code}
    /\ calc.runLen < MaxRun
    /\ location' = calculate_movement(location, key_code, Terminal_size)
    /\ calc' = [key |-> key_code,
                from |-> location,
                size |-> Terminal_size,
                to |-> location',
                runFrom |-> IF calc.key = key_code THEN calc.runFrom ELSE location,
                runLen |-> calc.runLen + 1]
    /\ UNCHANGED << pc, should_quit, view_size, termSize, event, result,
                    panicked, dev, queued, pass, restore, stats >>

NextCalc == \E key_code \in KeyCodes : CalcApply(key_code)

SpecCalc == InitCalc /\ [][NextCalc]_vars

----------------------------------------------------------------------------
(* Properties of Editor::calculate_movement, checked under SpecCalc *)

\* the coordinate lies within [0, width) x [0, height)
InBounds(loc, size) == loc.x < size.width /\ loc.y < size.height

\* a call with one of the eight movement keys has been made
Moved == calc.key \in MoveKeys

\* C1: for every size with width > 0 and height > 0, every coordinate within
\* [0, width) x [0, height) and each of the eight movement keys,
\* calculate_movement returns a coordinate within [0, width) x [0, height).
C1_MovementStaysInBounds ==
    (/\ Moved
     /\ calc.size.width > 0
     /\ calc.size.height > 0
     /\ InBounds(calc.from, calc.size))
    => InBounds(calc.to, calc.size)

\* C1 witness: Down was applied on the last row of a size of several rows,
\* and the coordinate stayed on that row
C1_Witness ==
    /\ calc.key = "Down"
    /\ calc.size.height > 1
    /\ calc.size.width > 0
    /\ InBounds(calc.from, calc.size)
    /\ calc.from.y = calc.size.height - 1
    /\ calc.to = calc.from

Max(a, b) == IF a >= b THEN a ELSE b
Min(a, b) == IF a <= b THEN a ELSE b

\* the last index of a dimension: d - 1, and 0 when the dimension is 0
LastIndex(d) == IF d = 0 THEN 0 ELSE d - 1

\* the movement table of the cursor model, in unbounded integer arithmetic
TableMove(loc, key, size) ==
    CASE key = "Up" -> [loc EXCEPT !.y = Max(loc.y - 1, 0)]
      [] key = "Down" -> [loc EXCEPT !.y = Min(loc.y + 1, LastIndex(size.height))]
      [] key = "Left" -> [loc EXCEPT !.x = Max(loc.x - 1, 0)]
      [] key = "Right" -> [loc EXCEPT !.x = Min(loc.x + 1, LastIndex(size.width))]
      [] key = "PageUp" -> [loc EXCEPT !.y = 0]
      [] key = "PageDown" -> [loc EXCEPT !.y = LastIndex(size.height)]
      [] key = "Home" -> [loc EXCEPT !.x = 0]
      [] key = "End" -> [loc EXCEPT !.x = LastIndex(size.width)]

\* C6: calculate_movement agrees with the movement table for every coordinate
\* and size drawn: Up y = max(y-1, 0); Down y = min(y+1, height-1) (0 if
\* height = 0); Left x = max(x-1, 0); Right x = min(x+1, width-1) (0 if
\* width = 0); PageUp y = 0; PageDown y = height-1 (0 if height = 0); Home
\* x = 0; End x = width-1 (0 if width = 0); the vertical keys leave x and the
\* horizontal keys leave y unchanged.
C6_AgreesWithTable ==
    Moved =>
        /\ calc.to = TableMove(calc.from, calc.key, calc.size)
        /\ calc.key \in {"Up", "Down", "PageUp", "PageDown"} => calc.to.x = calc.from.x
        /\ calc.key \in {"Left", "Right", "Home", "End"} => calc.to.y = calc.from.y

\* C6 witness: End was applied away from the last column of a size of several
\* columns and moved the coordinate there, leaving y
C6_Witness ==
    /\ calc.key = "End"
    /\ calc.size.width > 1
    /\ calc.from.x < calc.size.width - 1
    /\ calc.from.y > 0
    /\ calc.to = Location(calc.size.width - 1, calc.from.y)

\* C7: clamping is idempotent at the edges: for every size with height > 0
\* and width > 0, Up applied any number of times from y = 0 yields y = 0, Down
\* from y = height-1 yields y = height-1, Left from x = 0 yields x = 0 and
\* Right from x = width-1 yields x = width-1.
C7_ClampIdempotentAtEdges ==
    (calc.runLen > 0 /\ calc.size.height > 0 /\ calc.size.width > 0) =>
        /\ (calc.key = "Up" /\ calc.runFrom.y = 0) => calc.to.y = 0
        /\ (calc.key = "Down" /\ calc.runFrom.y = calc.size.height - 1)
              => calc.to.y = calc.size.height - 1
        /\ (calc.key = "Left" /\ calc.runFrom.x = 0) => calc.to.x = 0
        /\ (calc.key = "Right" /\ calc.runFrom.x = calc.size.width - 1)
              => calc.to.x = calc.size.width - 1

\* C7 witness: a run of MaxRun Downs that started on the last row of a size
\* of several rows
C7_Witness ==
    /\ calc.key = "Down"
    /\ calc.runLen = MaxRun
    /\ calc.size.height > 1
    /\ calc.size.width > 0
    /\ calc.runFrom.y = calc.size.height - 1
    /\ calc.to.y = calc.size.height - 1

\* C8: with width = 0 and height = 0, each of the eight movement keys applied
\* to (0,0) returns (0,0): no subtraction wraps below 0 (the result would be
\* UsizeMax) and no addition exceeds UsizeMax.
C8_ZeroSizeStaysAtOrigin ==
    (/\ Moved
     /\ calc.size = Size(0, 0)
     /\ calc.from = Location(0, 0))
    => /\ calc.to = Location(0, 0)
       /\ calc.to.x \in 0 .. UsizeMax
       /\ calc.to.y \in 0 .. UsizeMax

\* C8 witness: Up was applied to (0,0) in the size 0 x 0
C8_Witness ==
    /\ calc.key = "Up"
    /\ calc.size = Size(0, 0)
    /\ calc.from = Location(0, 0)
    /\ calc.to = Location(0, 0)

----------------------------------------------------------------------------
(* SpecBoth: the behaviours of the process and those of the harness *)

InitBoth == Init \/ InitCalc

NextBoth == Next \/ NextCalc

SpecBoth == InitBoth /\ [][NextBoth]_vars

----------------------------------------------------------------------------
(* Properties of the process, checked under Spec *)

\* the positions of the process inside Editor::repl
InLoop == pc \in {"refresh", "check", "read"}

\* C2: in every state of the editor loop the stored cursor coordinate has
\* x < width and y < height of the current screen size whenever that dimension
\* is > 0, and the component is 0 whenever the dimension is 0.
C2_CursorWithinScreen ==
    InLoop =>
        /\ termSize.width > 0 => location.x < termSize.width
        /\ termSize.width = 0 => location.x = 0
        /\ termSize.height > 0 => location.y < termSize.height
        /\ termSize.height = 0 => location.y = 0

\* C3, as the claim has it: after a panic in an opened session whose
\* restoration calls all succeed, the process ends with raw mode disabled and
\* the alternate screen left, and leave alternate screen, show cursor and
\* disable raw mode have each been called exactly once, counting the panic
\* hook and Drop for Terminal.
C3_RestoredOnceEach ==
    (pc = "exited" /\ panicked /\ ~restore.failed) =>
        /\ ~dev.raw
        /\ ~dev.alt
        /\ restore.leave = 1
        /\ restore.show = 1
        /\ restore.disable = 1

\* C3, amended: after a panic in an opened session whose restoration calls
\* all succeed, the process ends with raw mode disabled and the alternate
\* screen left, and leave alternate screen, show cursor and disable raw mode
\* have each been called exactly twice: once by the panic hook and once by
\* Drop for Terminal as the panic unwinds.
C3_RestoredTwiceEach ==
    (pc = "exited" /\ panicked /\ ~restore.failed) =>
        /\ ~dev.raw
        /\ ~dev.alt
        /\ restore.leave = 2
        /\ restore.show = 2
        /\ restore.disable = 2

\* C3 witness: the process has ended after a panic and every call of the
\* hook and of Drop succeeded
C3_Witness ==
    /\ pc = "exited"
    /\ panicked
    /\ ~restore.failed
    /\ restore.leave = 2
    /\ ~dev.raw
    /\ ~dev.alt

CtrlQPress == KeyEvent("Char_q", "Press", CONTROL)

\* the step reads an event and dispatches it (event' is that event)
Dispatched == pc = "read" /\ pc' = "refresh"

\* C4: a key press with the modifier control and the character 'q' sets the
\* quit flag; no other event (movement key, resize, other key, release or
\* repeat) and no other step sets it; once set it is never cleared.
C4_QuitOnlyByCtrlQ ==
    [][ /\ (Dispatched /\ event' = CtrlQPress) => should_quit'
        /\ (~should_quit /\ should_quit') => (Dispatched /\ event' = CtrlQPress)
        /\ should_quit => should_quit' ]_vars

\* C4 witness: the press of Ctrl-Q has been dispatched and the flag is set
C4_Witness ==
    /\ pc = "refresh"
    /\ event = CtrlQPress
    /\ should_quit

\* the refresh pass of the Quitting state, complete
QuitPass ==
    << Hide, move_caret_to(0, 0), ClearAll, print(Farewell), Show, Flushed >>

\* the instruction at position i of the pass is the farewell, and a clear of
\* the screen precedes it
FarewellAfterClear(p, i) ==
    /\ p[i] = print(Farewell)
    /\ \E j \in 1 .. (i - 1) : p[j] = ClearAll

\* C5: after the quit command was dispatched, and with no device error,
\* exactly one more refresh pass runs; in it the screen is cleared and then
\* "Goodbye.\r\n" is written, exactly once in the whole run; then the loop
\* exits without reading a further event.
C5_OneFarewellPassThenExit ==
    /\ stats.quitReads = 0
    /\ stats.quitPasses <= 1
    /\ stats.goodbyes <= stats.quitPasses
    /\ (should_quit /\ pc = "refresh") => stats.quitPasses = 0
    /\ (should_quit /\ pc \in {"check", "run"} /\ result # "err") =>
          /\ stats.quitPasses = 1
          /\ stats.goodbyes = 1
          /\ pass = QuitPass
          /\ \E i \in 1 .. Len(pass) :
                /\ FarewellAfterClear(pass, i)
                /\ \A k \in 1 .. Len(pass) : pass[k].op = "Print" => k = i
    /\ result = "ok" => (should_quit /\ stats.quitPasses = 1 /\ stats.goodbyes = 1)

\* C5 witness: the loop has returned Ok after its farewell pass
C5_Witness ==
    /\ pc = "run"
    /\ result = "ok"
    /\ should_quit
    /\ stats = [goodbyes |-> 1, quitPasses |-> 1, quitReads |-> 0]
    /\ pass = QuitPass

\* C9: for every coordinate and size, calculate_movement called with a key
\* that is not one of the eight movement keys returns the coordinate
\* unchanged; and the press of such a key, dispatched by evaluate_event,
\* leaves the cursor coordinate and the viewport size unchanged, and the quit
\* flag too unless it is Ctrl-Q, which sets the quit flag and nothing else.
\* (Checked under SpecBoth: the calls of the harness and the dispatches of
\* the loop.)
C9_NoOpKeysChangeNothing ==
    [][ /\ calc'.key \in (KeyCodes \ MoveKeys) => calc'.to = calc'.from
        /\ (/\ Dispatched
            /\ event'.type = "Key"
            /\ event'.kind = "Press"
            /\ event'.code \notin MoveKeys)
           => /\ UNCHANGED << location, view_size >>
              /\ IF event' = CtrlQPress THEN should_quit'
                 ELSE UNCHANGED should_quit ]_vars

\* C9 witness: calculate_movement was called away from column 0 with a key
\* that is no movement key
C9_Witness ==
    /\ calc.key = "Char_a"
    /\ calc.from.x > 0
    /\ calc.from.y > 0
    /\ calc.to = calc.from

\* C10: a key event of kind release or repeat, whatever its key code and
\* modifiers (the movement keys and Ctrl-Q included), changes nothing: cursor
\* coordinate, viewport size and quit flag stay; a dispatch that moves the
\* cursor or sets the quit flag is the dispatch of an event of kind press.
C10_OnlyPressActs ==
    [][ /\ (Dispatched /\ event'.type = "Key" /\ event'.kind \in {"Release", "Repeat"})
           => UNCHANGED << location, view_size, should_quit >>
        /\ (Dispatched /\ (location' # location \/ should_quit' # should_quit))
           => (event'.type = "Key" /\ event'.kind = "Press") ]_vars

\* C10 witness: the repeat of Right was dispatched where a press would have
\* moved the cursor
C10_Witness ==
    /\ pc = "refresh"
    /\ event = KeyEvent("Right", "Repeat", {})
    /\ location.x + 1 < termSize.width

\* the event is the press of one of the eight movement keys
IsMovePress(e) == e.type = "Key" /\ e.kind = "Press" /\ e.code \in MoveKeys

\* C11: when the press of a movement key is dispatched and the terminal size
\* query fails, the cursor coordinate and the quit flag are unchanged, no error
\* is propagated (the loop's result and the panic flag stay), and the loop
\* goes on to its next refresh pass, after which it reads the next event; a
\* movement key dispatched with a successful size query, after a failed one
\* too, moves the cursor as the movement table says.
C11_FailedSizeQuerySkipsMove ==
    [][ /\ (Dispatched /\ IsMovePress(event') /\ ReadEvaluate(event', FALSE))
           => /\ UNCHANGED << location, should_quit, view_size, result, panicked >>
              /\ ~should_quit'
              /\ result' = "none"
              /\ pc' = "refresh"
        /\ (Dispatched /\ IsMovePress(event') /\ ReadEvaluate(event', TRUE))
           => location' = TableMove(location, event'.code, Terminal_size)
        /\ (pc = "refresh" /\ ~should_quit /\ result' = "none" /\ ~panicked')
           => pc' = "check"
        /\ (pc = "check" /\ ~should_quit) => pc' = "read" ]_vars

\* C11 witness: the press of Right was dispatched where a successful size
\* query would have moved the cursor to column 1, and the cursor is still at
\* column 0: the query failed and the loop is at its next refresh pass
C11_Witness ==
    /\ pc = "refresh"
    /\ event = KeyEvent("Right", "Press", {})
    /\ termSize.width = 2
    /\ location.x = 0
    /\ ~should_quit
    /\ result = "none"

\* C12: the dispatch of a resize event replaces the viewport's stored size
\* with the event's width and height and leaves the cursor coordinate (not
\* re-clamped to the new size) and the quit flag unchanged; the dispatch
\* queues and draws nothing; the loop reads an event only after a complete
\* refresh pass, and a complete pass of the Running state renders the viewport
\* at its stored size.
C12_ResizeUpdatesViewportOnly ==
    [][ /\ (Dispatched /\ event'.type = "Resize")
           => /\ view_size' = Size(event'.height, event'.width)
              /\ UNCHANGED << location, should_quit, queued, pass, dev >>
              /\ pc' = "refresh"
        /\ (pc' = "read" /\ pc # "read") => pc = "check"
        /\ pc' = "check"
           => /\ pc = "refresh"
              /\ Len(pass') = PassLen
              /\ ~should_quit => pass'[3] = render(view_size) ]_vars

\* C12 witness: the resize to one column and one row was dispatched with the
\* cursor at column 1; the viewport has the new size, the cursor is still at
\* column 1, and the loop is at its next refresh pass
C12_Witness ==
    /\ pc = "refresh"
    /\ event = ResizeEvent(1, 1)
    /\ view_size = Size(1, 1)
    /\ location.x = 1
    /\ ~should_quit
    /\ queued = << >>

\* C13: on every path to the end of the process on which no restoration call
\* fails, the failure of any one step of Terminal::new included, the process
\* ends with raw mode disabled and the alternate screen not entered; and the
\* event loop is entered only from main after all four steps of opening have
\* succeeded: after a failed open the Err arm of main runs and the process
\* ends, with no refresh pass, no read and no dispatch.
C13_FailedOpenNeverLoopsAndRestores ==
    [][ /\ pc = "init_err"
           => /\ pc' = "exited"
              /\ UNCHANGED << pass, event, result, stats, should_quit, location >>
        /\ (pc = "main" /\ pc' = "refresh")
           => (dev'.raw /\ dev'.alt /\ queued' = << >>)
        /\ (pc = "main" /\ pc' # "refresh") => pc' = "init_err"
        /\ (InLoop' /\ ~InLoop) => pc = "main"
        /\ (pc' = "exited" /\ ~restore'.failed)
           => (~dev'.raw /\ ~dev'.alt) ]_vars

\* C14: once a device operation of a refresh pass or the read of an event has
\* failed, the loop has ended: the process is never again at a refresh pass,
\* at the loop's check or at a read, and the failing pass stopped at the
\* failing step. The process then ends with the restoration performed, by
\* Drop for Terminal in a release build (no panic) and by the panic hook and
\* Drop in a debug build (panic): leave alternate screen, show cursor, flush
\* and disable raw mode were each called, and when none of them failed raw
\* mode is off, the alternate screen is left and the cursor is shown.
C14_ErrorEndsLoopAndRestores ==
    /\ result = "err" => pc \in {"run", "hook", "drop", "exited"}
    /\ (result = "err" /\ Len(pass) = PassLen) => pass[PassLen] = Flushed
    /\ (result = "err" /\ Len(pass) < PassLen) => \A i \in 1 .. Len(pass) : pass[i] # Flushed
    /\ (pc = "exited" /\ result = "err") =>
          /\ restore.leave >= 1
          /\ restore.show >= 1
          /\ restore.flush >= 1
          /\ restore.disable >= 1
          /\ ~panicked => (restore.leave = 1 /\ restore.disable = 1)
          /\ ~restore.failed => (~dev.raw /\ ~dev.alt /\ dev.caret /\ queued = << >>)

\* C14 witness: in a release build the render step of a pass failed; the
\* process has ended without a panic, each restoration call made once, the
\* terminal restored
C14_Witness ==
    /\ pc = "exited"
    /\ result = "err"
    /\ ~panicked
    /\ pass = << Hide, move_caret_to(0, 0) >>
    /\ restore.leave = 1
    /\ restore.show = 1
    /\ restore.flush = 1
    /\ restore.disable = 1
    /\ ~restore.failed
    /\ ~dev.raw
    /\ ~dev.alt
    /\ dev.caret

\* p is an initial part of q
IsPrefix(p, q) == Len(p) <= Len(q) /\ p = SubSeq(q, 1, Len(p))

\* the pass as the claim has it, the move to the cursor coordinate in both
\* states
ClaimedPass(quit, loc, size) ==
    << Hide, move_caret_to(0, 0) >>
    \o (IF quit THEN << ClearAll, print(Farewell) >> ELSE << render(size) >>)
    \o << move_caret_to(loc.x, loc.y), Show, Flushed >>

\* the complete pass of the Running state
RunPass(loc, size) ==
    << Hide, move_caret_to(0, 0), render(size), move_caret_to(loc.x, loc.y),
       Show, Flushed >>

\* the flush is in the pass at most once, and then as its last step
FlushLastAndOnce(p) == \A i \in 1 .. Len(p) : p[i] = Flushed => i = Len(p)

\* the states in which the pass just run is still in view, the cursor
\* coordinate and the stored size being those the pass read
PassInView == pc \in {"check", "read", "run", "hook"}

\* C15, as the claim has it: every refresh pass, of the Running and of the
\* Quitting state, performs in this order: hide cursor, move to origin,
\* (clear screen and farewell if Quitting, else render), move cursor to the
\* model's coordinate, show cursor, flush; the flush last and once. A pass
\* stopped by a failure is an initial part of this sequence.
C15_PassOrderWithMoveInBothStates ==
    /\ PassInView => IsPrefix(pass, ClaimedPass(should_quit, location, view_size))
    /\ pc = "check" => pass = ClaimedPass(should_quit, location, view_size)
    /\ FlushLastAndOnce(pass)

\* C15, amended: a pass of the Running state performs hide cursor, move to
\* origin, render, move cursor to the model's coordinate, show cursor, flush;
\* a pass of the Quitting state performs hide cursor, move to origin, clear
\* screen, farewell, show cursor, flush, without a move to the model's
\* coordinate; in both the flush is the last step and happens once. A pass
\* stopped by a failure is an initial part of its sequence.
C15_PassOrder ==
    LET expected == IF should_quit THEN QuitPass ELSE RunPass(location, view_size)
    IN  /\ PassInView => IsPrefix(pass, expected)
        /\ pc = "check" => pass = expected
        /\ FlushLastAndOnce(pass)
        /\ (pc = "check" /\ should_quit) =>
              \A i \in 3 .. Len(pass) : pass[i].op # "MoveTo"

\* C15 witness: a complete pass of the Quitting state has run with the cursor
\* away from the origin
C15_Witness ==
    /\ pc = "check"
    /\ should_quit
    /\ location = Location(1, 0)
    /\ pass = QuitPass
    /\ queued = << >>

\* C16: when the stored cursor coordinate lies outside the screen (the screen
\* has shrunk), the dispatch of the press of any of the eight movement keys,
\* with a successful size query reporting a width and a height above 0, leaves
\* the cursor inside the screen.
C16_FirstMoveReclamps ==
    [][ (/\ Dispatched
         /\ IsMovePress(event')
         /\ ReadEvaluate(event', TRUE)
         /\ termSize.width > 0
         /\ termSize.height > 0
         /\ ~InBounds(location, Terminal_size))
        => InBounds(location', Terminal_size) ]_vars

\* the four steps of the teardown, in the order of the claim
TeardownSteps ==
    << "leave_alternate_screen", "show_caret", "execute", "disable_raw_mode" >>

\* C17: the teardown of the session (Drop for Terminal) attempts its four
\* steps in the order leave alternate screen, show cursor, flush, disable raw
\* mode; whichever of the steps fail, each of the four is attempted, exactly
\* once; the teardown runs once and raises no panic: it leaves the panic flag
\* as it was and the process ends.
C17_TeardownAttemptsAllInOrder ==
    [][ /\ pc = "drop"
           => /\ pc' = "exited"
              /\ panicked' = panicked
              /\ restore.dropped = << >>
              /\ restore'.dropped = TeardownSteps
              /\ restore'.leave = restore.leave + 1
              /\ restore'.show = restore.show + 1
              /\ restore'.flush = restore.flush + 1
              /\ restore'.disable = restore.disable + 1
        /\ pc # "drop" => restore'.dropped = restore.dropped ]_vars

\* C17 witness: a teardown in which leave alternate screen succeeded and show
\* cursor and the flush failed (the leave instruction is still queued) has
\* gone on to disable raw mode, all four steps attempted
C17_Witness ==
    /\ pc = "exited"
    /\ result = "ok"
    /\ queued = << LeaveAlternateScreen >>
    /\ ~dev.raw
    /\ dev.alt
    /\ restore.failed
    /\ restore.dropped = TeardownSteps
    /\ restore.disable = 1

----------------------------------------------------------------------------
(* SpecLive: the steps of the loop that do not wait for input are taken *)

\* one refresh pass, whatever its outcome
RefreshStep == \E f \in 0 .. PassLen, debug \in BOOLEAN : RefreshScreen(f, debug)

\* main is one sequential thread: refresh_screen and the test of should_quit
\* run as soon as the loop reaches them; only read() waits, for an event that
\* may never come, so no fairness is assumed for it
SpecLive == Spec /\ WF_vars(RefreshStep) /\ WF_vars(ReplCheck)

\* C18: the loop is left only with the quit flag set (repl returns Ok) or
\* with a device or read error (repl returns the error); as long as the quit
\* flag is not set and no error occurs, every step leaves the process in the
\* loop, however many events are dispatched; and once the quit flag is set by
\* a dispatched Ctrl-Q, the loop is eventually left.
C18_LoopEndsOnlyOnQuitOrError ==
    /\ [][ /\ (InLoop /\ ~InLoop')
              => /\ pc' = "run"
                 /\ \/ should_quit /\ result' = "ok"
                    \/ result' = "err"
           /\ (InLoop /\ ~should_quit /\ result' # "err") => InLoop' ]_vars
    /\ (InLoop /\ should_quit) ~> (~InLoop /\ result \in {"ok", "err"})

\* C18 witness: Ctrl-Q was dispatched and the loop has been left with Ok, the
\* editor about to be dropped
C18_Witness ==
    /\ pc = "drop"
    /\ result = "ok"
    /\ should_quit
    /\ ~panicked
    /\ stats.quitPasses = 1

\* both components of the coordinate fit u16
FitsU16(loc) == loc.x <= U16Max /\ loc.y <= U16Max

\* C19: every coordinate handed to move_caret_to has a column and a row of at
\* most 65535, so its two debug assertions never fail. In every state of the
\* editor the cursor coordinate fits 16 bits and the sizes reported are
\* 16-bit values; the caret instruction of a pass carries the coordinate
\* untruncated; the only panic is the one of Editor::run after an error. And
\* calculate_movement keeps the bound: called with a coordinate that fits 16
\* bits and a size of 16-bit components, it returns one that fits 16 bits
\* (checked on the calls of the harness, whose sizes go up to 65535).
C19_CaretCoordinatesFitU16 ==
    /\ Terminal_size.width <= U16Max
    /\ Terminal_size.height <= U16Max
    /\ pc # "calc" => FitsU16(location)
    /\ (pc \in {"check", "read"} /\ ~should_quit)
       => pass[4] = Instr("MoveTo", location.x, location.y, "")
    /\ panicked => result = "err"
    /\ (calc.key # "None" /\ FitsU16(calc.from)) => FitsU16(calc.to)

\* C19 witness: Right was applied at column 65534 of a screen 65535 columns
\* wide, the widest there is, and the column stayed 65534
C19_Witness ==
    /\ calc.key = "Right"
    /\ calc.size.width = U16Max
    /\ calc.from.x = U16Max - 1
    /\ calc.from.y <= U16Max
    /\ calc.to.x = U16Max - 1

\* the position in p of its last instruction with an op in ops (0 if none)
LastOf(p, ops) ==
    IF \E i \in 1 .. Len(p) : p[i].op \in ops
    THEN CHOOSE i \in 1 .. Len(p) :
            /\ p[i].op \in ops
            /\ \A j \in (i + 1) .. Len(p) : p[j].op \notin ops
    ELSE 0

\* C20: whenever the loop waits to read the next event, the refresh pass
\* before it is complete: its last step is the flush and nothing is left
\* queued; the last caret-visibility instruction of the pass is the show, and
\* the caret is visible on the device; the last move of the pass went to the
\* cursor model's current coordinate.
C20_ReadAfterCompletePass ==
    pc = "read" =>
        /\ Len(pass) = PassLen
        /\ pass[PassLen] = Flushed
        /\ queued = << >>
        /\ LastOf(pass, {"Hide", "Show"}) > 0
        /\ pass[LastOf(pass, {"Hide", "Show"})] = Show
        /\ dev.caret
        /\ LastOf(pass, {"MoveTo"}) > 0
        /\ pass[LastOf(pass, {"MoveTo"})] = Instr("MoveTo", location.x, location.y, "")

\* C20 witness: the loop waits for input with the cursor at column 1; the
\* pass before it moved the caret there and showed it
C20_Witness ==
    /\ pc = "read"
    /\ location = Location(1, 0)
    /\ pass[4] = Instr("MoveTo", 1, 0, "")
    /\ pass[5] = Show
    /\ queued = << >>
    /\ dev.caret

====
